---- MODULE Spec2Model ----
(***************************************************************************)
(* Inventory tracker (src/index.tsx): the App component's three tables     *)
(* (users, products, transactions), each held by useLocalStorage and       *)
(* persisted as JSON text under its own localStorage key, and the command  *)
(* handlers handleRegisterUser, handleRegisterProduct, handleAdjustStock   *)
(* and addTransaction.                                                     *)
(*                                                                         *)
(* One action is one discrete UI event: React runs the handler to          *)
(* completion and re-renders before the next event, so the handler's       *)
(* closures (storedValue of each key) are the tables of the state the      *)
(* action starts in.                                                       *)
(***************************************************************************)
EXTENDS Integers, Sequences, FiniteSets, TLC

VARIABLES
    users,          \* App: useLocalStorage("users") storedValue, as rendered
    products,       \* App: useLocalStorage("products") storedValue
    transactions,   \* App: useLocalStorage("transactions") storedValue (the ledger)
    store,          \* window.localStorage: key -> item
    now,            \* the wall clock read by new Date()
    nextId,         \* per table, the number of the next value crypto.randomUUID() hands out
    lastCmd,        \* history: the command that produced this state
    writeLog,       \* history: the localStorage.setItem calls of that command, in order
    acceptedCount,  \* history: per product id, the adjustStock calls that passed the guard
    shape,          \* per key, what kind of value storedValue is ("array" for a table)
    crashed,        \* the page is dead: a render has thrown, or the process has stopped
    activeTab,      \* App: the tab whose component is mounted
    currentPage,    \* TransactionHistory: the page shown (1 while it is not mounted)
    formError       \* the error message shown by the registration form of the tab

\* the state of the components below App
ui == <<activeTab, currentPage, formError>>

vars == <<users, products, transactions, store, now, nextId, lastCmd, writeLog,
          acceptedCount, shape, crashed, activeTab, currentPage, formError>>

----------------------------------------------------------------------------
(* Bounds of the model *)

MaxUsers == 1
MaxProducts == 2
MaxTxns == 3
MaxTime == 2

(* Inputs *)
Skus == {"A1"}
ProductNames == {"Widget"}
Prices == {5}
Quantities == {0, 1}
Deltas == {0 - 1, 0, 2}
FullNames == {"Ann"}
Emails == {"a@b.com"}

Keys == {"users", "products", "transactions"}
Tabs == {"dashboard", "products", "users", "history"}
TransactionTypes == {"initial", "increase", "decrease"}

MaxUuid == MaxUsers + MaxProducts + MaxTxns
MaxNumber == 2 * MaxTxns + 5

----------------------------------------------------------------------------
(* Values produced by the runtime *)

\* crypto.randomUUID(): a string no earlier call returned (the n-th id made
\* for a record of table key)
uuid(key, n) == key \o "-" \o ToString(n)

\* new Date().toISOString() at clock reading t
toISOString(t) == "T" \o ToString(t)

Uuids == {uuid(k, n) : k \in Keys, n \in 0..MaxUuid}
UnknownId == uuid("products", 0)
Timestamps == {toISOString(t) : t \in 0..(MaxTime + 1)}

\* mutant of MathAbs: the sign kept
MathAbs_identity(x) == x

MathAbs(x) == IF x < 0 THEN 0 - x ELSE x

----------------------------------------------------------------------------
(* JSON text of an array of flat records.  A text is the sequence of its   *)
(* records' texts; a record's text gives, per field, the token written for *)
(* the field: a number's decimal digits, or a string in double quotes.     *)

NumericFields == {"price", "quantity", "amount"}

Quote(s) == "\"" \o s \o "\""
NumText(n) == ToString(n)

Strings == Uuids \cup Timestamps \cup Skus \cup ProductNames \cup TransactionTypes
           \cup FullNames \cup Emails
Numbers == (0 - MaxNumber)..MaxNumber

Unquote(tok) == CHOOSE s \in Strings : Quote(s) = tok
ParseNum(tok) == CHOOSE n \in Numbers : NumText(n) = tok

StringifyRecord(r) ==
    [f \in DOMAIN r |-> IF f \in NumericFields THEN NumText(r[f]) ELSE Quote(r[f])]

ParseRecord(t) ==
    [f \in DOMAIN t |-> IF f \in NumericFields THEN ParseNum(t[f]) ELSE Unquote(t[f])]

JSONstringify(value) == [i \in 1..Len(value) |-> StringifyRecord(value[i])]

JSONparse(text) == [i \in 1..Len(text) |-> ParseRecord(text[i])]

----------------------------------------------------------------------------
(* window.localStorage *)

(* An item is absent, or holds a text.  form tells what the text is: the   *)
(* JSON text of an array of records (held in text), the empty string, a    *)
(* text JSON.parse rejects, or the JSON text of null, of a number or of an *)
(* object.                                                                 *)
ForeignForms == {"empty", "invalid", "null", "number", "object"}

NoItem == [present |-> FALSE, form |-> "none", text |-> <<>>]

ForeignItem(form) == [present |-> TRUE, form |-> form, text |-> <<>>]

ArrayItem(text) == [present |-> TRUE, form |-> "array", text |-> text]

\* mutant of setItem: the write left out
setItem_dropped(st, key, text) == st

setItem(st, key, text) == [st EXCEPT ![key] = ArrayItem(text)]

\* mutant of load: the stored item ignored
load_defaultOnly(st, key) == <<>>

\* a storedValue: its kind and, for an array, its records
Value(kind, items) == [shape |-> kind, items |-> items]
initialValue == Value("array", <<>>)

\* item ? ... : ... (null and the empty string are falsy)
truthy(item) == item.present /\ item.form # "empty"

\* JSON.parse(item) throws
parseThrows(item) == item.form = "invalid"

\* JSON.parse(item) when it does not throw
parsed(item) ==
    IF item.form = "array" THEN Value("array", JSONparse(item.text))
    ELSE Value(item.form, <<>>)

\* mutant of initialLoad: no try/catch around the parse
initialLoad_noCatch(item) ==
    IF truthy(item)
    THEN IF parseThrows(item) THEN Value("error", <<>>) ELSE parsed(item)
    ELSE initialValue

\* the useState initializer
initialLoad(item) ==
    IF truthy(item)
    THEN IF parseThrows(item) THEN initialValue ELSE parsed(item)
    ELSE initialValue

\* the mount effect, run on the value the initializer gave
mountEffect(current, item) ==
    IF truthy(item) /\ ~parseThrows(item) THEN parsed(item) ELSE current

\* useLocalStorage at page load: the useState initializer, then the mount effect
loadedValue(item) == mountEffect(initialLoad(item), item)

load(st, key) == loadedValue(st[key]).items

\* the first render (the dashboard) throws: products.reduce on a non-array,
\* or users.length on null
renderThrows(sh) == sh["products"] # "array" \/ sh["users"] = "null"

\* one localStorage.setItem call, as recorded in writeLog
Write(key, value) == [key |-> key, text |-> JSONstringify(value)]

RECURSIVE ApplyWrites(_, _)
ApplyWrites(st, ws) ==
    IF ws = <<>> THEN st
    ELSE ApplyWrites(setItem(st, Head(ws).key, Head(ws).text), Tail(ws))

\* mutant of survivingWrites: a throwing setItem ends the command, the calls
\* after it are not made
survivingWrites_abort(ws, failing) ==
    LET firstFailure == CHOOSE n \in 1..(Len(ws) + 1) :
                            /\ \A k \in 1..(n - 1) : ws[k].key \notin failing
                            /\ n <= Len(ws) => ws[n].key \in failing
    IN  SubSeq(ws, 1, firstFailure - 1)

\* setValue's try/catch: a setItem that throws (for the keys in failing) is
\* logged and dropped, the other calls of the command take effect
survivingWrites(ws, failing) == SelectSeq(ws, LAMBDA w : w.key \notin failing)

\* mutant of writesBeforeStop: the two writes made as one
writesBeforeStop_all(ws) == ws

\* the process stops between the first setItem call of a command and the second
writesBeforeStop(ws) == SubSeq(ws, 1, 1)

----------------------------------------------------------------------------
(* State of the components: TransactionHistory's page, the forms' fields   *)

\* TransactionHistory: useState(1)
initialPage == 1

----------------------------------------------------------------------------
(* history record of a command *)

Cmd(op, productId, amount, sku, name, price, outcome) ==
    [op |-> op, productId |-> productId, amount |-> amount, sku |-> sku,
     name |-> name, price |-> price, outcome |-> outcome]

----------------------------------------------------------------------------
Init ==
    /\ users = <<>>
    /\ products = <<>>
    /\ transactions = <<>>
    /\ store = [k \in Keys |-> NoItem]
    /\ now = 1
    /\ nextId = [k \in Keys |-> 1]
    /\ lastCmd = Cmd("init", "", 0, "", "", 0, "")
    /\ writeLog = <<>>
    /\ acceptedCount = [id \in Uuids |-> 0]
    /\ shape = [k \in Keys |-> "array"]
    /\ crashed = FALSE
    /\ activeTab = "dashboard"
    /\ currentPage = initialPage
    /\ formError = ""

\* time passes between two events
Tick ==
    /\ now < MaxTime
    /\ now' = now + 1
    /\ lastCmd' = Cmd("tick", "", 0, "", "", 0, "")
    /\ writeLog' = <<>>
    /\ UNCHANGED <<users, products, transactions, store, nextId, acceptedCount,
                   shape, crashed>>
    /\ UNCHANGED ui

----------------------------------------------------------------------------
(* useLocalStorage.setValue with a functional update: the updater is       *)
(* applied to storedValue, the result becomes the state and is written to  *)
(* the key as JSON text.  An updater that spreads or maps a storedValue     *)
(* that is no array throws; setValue catches it, and neither the state nor  *)
(* the key changes.  The updaters of the three tables:                      *)

usable(key) == shape[key] = "array"

appendUser(prev, newUser) == Append(prev, newUser)

\* mutant of appendProduct: the new product first
appendProduct_atFront(prev, newProduct) == <<newProduct>> \o prev

appendProduct(prev, newProduct) == Append(prev, newProduct)

\* mutants of prependTransaction: the spread of prev forgotten; the new entry last
prependTransaction_dropPrev(prev, newTransaction) == <<newTransaction>>
prependTransaction_atEnd(prev, newTransaction) == Append(prev, newTransaction)

prependTransaction(prev, newTransaction) == <<newTransaction>> \o prev

\* mutant of newTransaction: the snapshot's sku taken from the name
newTransaction_skuFromName(id, product, type, amount, t) ==
    [id |-> id, productId |-> product.id, sku |-> product.name,
     productName |-> product.name, type |-> type, amount |-> MathAbs(amount),
     timestamp |-> toISOString(t)]

\* addTransaction: the record it builds
newTransaction(id, product, type, amount, t) ==
    [id |-> id, productId |-> product.id, sku |-> product.sku,
     productName |-> product.name, type |-> type, amount |-> MathAbs(amount),
     timestamp |-> toISOString(t)]

\* mutant of initialTransaction: the registration logged as an increase
initialTransaction_asIncrease(id, product, quantity, t) ==
    newTransaction(id, product, "increase", quantity, t)

\* handleRegisterProduct's call addTransaction(newProduct, "initial", quantity)
initialTransaction(id, product, quantity, t) ==
    newTransaction(id, product, "initial", quantity, t)

----------------------------------------------------------------------------
(* handleRegisterUser *)

\* mutant of newUserRecord: the two arguments swapped
newUserRecord_swapped(id, fullName, email, t) ==
    [id |-> id, fullName |-> email, email |-> fullName, createdAt |-> toISOString(t)]

\* the record handleRegisterUser builds
newUserRecord(id, fullName, email, t) ==
    [id |-> id, fullName |-> fullName, email |-> email, createdAt |-> toISOString(t)]

handleRegisterUser(fullName, email) ==
    /\ ~crashed
    /\ Len(users) < MaxUsers /\ nextId.users <= MaxUsers
    /\ LET newUser == newUserRecord(uuid("users", nextId.users), fullName, email, now)
           ws == IF usable("users") THEN <<Write("users", appendUser(users, newUser))>>
                 ELSE <<>>
       IN  /\ users' = IF usable("users") THEN appendUser(users, newUser) ELSE users
           /\ writeLog' = ws
           /\ store' = ApplyWrites(store, ws)
    /\ nextId' = [nextId EXCEPT !.users = @ + 1]
    /\ lastCmd' = Cmd("registerUser", "", 0, "", "", 0, "accepted")
    /\ UNCHANGED <<products, transactions, now, acceptedCount, shape, crashed>>

\* the command on its own: the form and the other components keep their state
RegisterUser(fullName, email) == handleRegisterUser(fullName, email) /\ UNCHANGED ui

----------------------------------------------------------------------------
(* handleRegisterProduct: setProducts, then addTransaction(.., "initial", ..) *)

newProductRecord(id, sku, name, price, quantity, t) ==
    [id |-> id, sku |-> sku, name |-> name, price |-> price, quantity |-> quantity,
     lastUpdated |-> toISOString(t)]

\* the product and the ledger entry the handler builds in this state
registeredProduct(sku, name, price, quantity) ==
    newProductRecord(uuid("products", nextId.products), sku, name, price, quantity, now)
registeredEntry(sku, name, price, quantity) ==
    initialTransaction(uuid("transactions", nextId.transactions),
                       registeredProduct(sku, name, price, quantity), quantity, now)

\* the setItem calls of handleRegisterProduct, in order
registerProductWrites(sku, name, price, quantity) ==
    (IF usable("products")
     THEN <<Write("products",
                  appendProduct(products, registeredProduct(sku, name, price, quantity)))>>
     ELSE <<>>)
    \o (IF usable("transactions")
        THEN <<Write("transactions",
                     prependTransaction(transactions,
                                        registeredEntry(sku, name, price, quantity)))>>
        ELSE <<>>)

\* handleRegisterProduct when setItem throws for the keys in failing
registerProductWhen(sku, name, price, quantity, failing) ==
    /\ ~crashed
    /\ Len(products) < MaxProducts /\ nextId.products <= MaxProducts
    /\ Len(transactions) < MaxTxns /\ nextId.transactions <= MaxTxns
    /\ LET newProduct == registeredProduct(sku, name, price, quantity)
           tx == registeredEntry(sku, name, price, quantity)
           ws == survivingWrites(registerProductWrites(sku, name, price, quantity), failing)
       IN  /\ products' = IF usable("products") THEN appendProduct(products, newProduct)
                          ELSE products
           /\ transactions' = IF usable("transactions")
                              THEN prependTransaction(transactions, tx)
                              ELSE transactions
           /\ writeLog' = ws
           /\ store' = ApplyWrites(store, ws)
           /\ lastCmd' = Cmd("registerProduct", newProduct.id, quantity, sku, name,
                             price, "accepted")
    /\ nextId' = [nextId EXCEPT !.products = @ + 1, !.transactions = @ + 1]
    /\ UNCHANGED <<users, now, acceptedCount, shape, crashed>>

handleRegisterProduct(sku, name, price, quantity) ==
    registerProductWhen(sku, name, price, quantity, {})

\* the command on its own
RegisterProduct(sku, name, price, quantity) ==
    handleRegisterProduct(sku, name, price, quantity) /\ UNCHANGED ui

----------------------------------------------------------------------------
(* handleAdjustStock: setProducts(prevProducts => prevProducts.map(...)),  *)
(* whose callback calls addTransaction for the product it updates          *)

\* mutant of newQuantity: the delta applied with the wrong sign
newQuantity_minus(p, amount) == p.quantity - amount

newQuantity(p, amount) == p.quantity + amount

\* mutants of guardRejects: off by one; guard left out; a zero delta refused
guardRejects_zeroRefused(p, amount) == newQuantity(p, amount) < 0 \/ amount = 0
guardRejects_offByOne(p, amount) == newQuantity(p, amount) < 0 - 1
guardRejects_never(p, amount) == FALSE

\* the guard of the map callback: the adjustment is refused
guardRejects(p, amount) == newQuantity(p, amount) < 0

\* mutant of updatedProduct: the price is lost from the copy
updatedProduct_noPrice(p, amount, t) ==
    [p EXCEPT !.quantity = newQuantity(p, amount), !.lastUpdated = toISOString(t),
              !.price = 0]

updatedProduct(p, amount, t) ==
    [p EXCEPT !.quantity = newQuantity(p, amount), !.lastUpdated = toISOString(t)]

\* mutant of transactionType: zero classified as an increase
transactionType_zeroIncrease(amount) == IF amount >= 0 THEN "increase" ELSE "decrease"

transactionType(amount) == IF amount > 0 THEN "increase" ELSE "decrease"

\* mutants of mapCallback: addTransaction reached before the guard; the id
\* test inverted
mapCallback_logBeforeGuard(p, productId, amount, t) ==
    IF p.id = productId
    THEN [result |-> IF newQuantity(p, amount) < 0 THEN p
                     ELSE updatedProduct(p, amount, t),
          logged |-> <<updatedProduct(p, amount, t)>>]
    ELSE [result |-> p, logged |-> <<>>]
mapCallback_idInverted(p, productId, amount, t) ==
    IF p.id # productId
    THEN IF newQuantity(p, amount) < 0
         THEN [result |-> p, logged |-> <<>>]
         ELSE [result |-> updatedProduct(p, amount, t),
               logged |-> <<updatedProduct(p, amount, t)>>]
    ELSE [result |-> p, logged |-> <<>>]

\* the map callback for one product: the product it returns and, when it
\* reaches addTransaction, the snapshot it hands over
mapCallback(p, productId, amount, t) ==
    IF p.id = productId
    THEN IF guardRejects(p, amount)
         THEN [result |-> p, logged |-> <<>>]
         ELSE [result |-> updatedProduct(p, amount, t),
               logged |-> <<updatedProduct(p, amount, t)>>]
    ELSE [result |-> p, logged |-> <<>>]

newProducts(prevProducts, productId, amount, t) ==
    [i \in 1..Len(prevProducts) |->
        mapCallback(prevProducts[i], productId, amount, t).result]

\* the addTransaction calls of one map, in map order
RECURSIVE adjustCalls(_, _, _, _)
adjustCalls(prevProducts, productId, amount, t) ==
    IF prevProducts = <<>> THEN <<>>
    ELSE mapCallback(Head(prevProducts), productId, amount, t).logged
         \o adjustCalls(Tail(prevProducts), productId, amount, t)

\* what the claims call the outcome of adjustStock(productId, amount)
Outcome(productId, amount) ==
    IF ~\E i \in 1..Len(products) : products[i].id = productId THEN "unknown"
    ELSE IF \E i \in 1..Len(products) :
                 products[i].id = productId /\ products[i].quantity + amount < 0
         THEN "rejected"
         ELSE "accepted"

\* mutant of setValueWrites: the key written before the updater has run
setValueWrites_ownFirst(updaterWrites, ownWrite) == ownWrite \o updaterWrites

\* setValue: the updater runs first, with the setItem calls of the setters it
\* calls, then the key of this setter is written
setValueWrites(updaterWrites, ownWrite) == updaterWrites \o ownWrite

\* the addTransaction calls of handleAdjustStock in this state
callsNow(productId, amount) ==
    IF usable("products") THEN adjustCalls(products, productId, amount, now) ELSE <<>>

\* the ledger after the k-th addTransaction call: every call updates the
\* transactions of this render
ledgerAfter(productId, amount, k) ==
    prependTransaction(transactions,
        newTransaction(uuid("transactions", nextId.transactions + k - 1),
                       callsNow(productId, amount)[k], transactionType(amount), amount, now))

\* the setItem calls of handleAdjustStock, in order
adjustStockWrites(productId, amount) ==
    setValueWrites(
        IF usable("transactions")
        THEN [k \in 1..Len(callsNow(productId, amount)) |->
                 Write("transactions", ledgerAfter(productId, amount, k))]
        ELSE <<>>,
        IF usable("products")
        THEN <<Write("products", newProducts(products, productId, amount, now))>>
        ELSE <<>>)

\* handleAdjustStock when setItem throws for the keys in failing
adjustStockWhen(productId, amount, failing) ==
    /\ ~crashed
    /\ LET calls == callsNow(productId, amount)
           ws == survivingWrites(adjustStockWrites(productId, amount), failing)
       IN  /\ transactions' = IF calls = <<>> \/ ~usable("transactions") THEN transactions
                              ELSE ledgerAfter(productId, amount, Len(calls))
           /\ products' = IF usable("products")
                          THEN newProducts(products, productId, amount, now)
                          ELSE products
           /\ writeLog' = ws
           /\ store' = ApplyWrites(store, ws)
           /\ nextId' = [nextId EXCEPT !.transactions = @ + Len(calls)]
    /\ lastCmd' = Cmd("adjustStock", productId, amount, "", "", 0,
                      Outcome(productId, amount))
    /\ acceptedCount' =
           IF Outcome(productId, amount) = "accepted"
           THEN [acceptedCount EXCEPT ![productId] = @ + 1]
           ELSE acceptedCount
    /\ UNCHANGED <<users, now, shape, crashed>>

handleAdjustStock(productId, amount) == adjustStockWhen(productId, amount, {})

\* the command on its own
AdjustStock(productId, amount) ==
    /\ Len(transactions) < MaxTxns /\ nextId.transactions <= MaxTxns
    /\ handleAdjustStock(productId, amount)
    /\ UNCHANGED ui

----------------------------------------------------------------------------
(* Restart of the page: every table is loaded again from its key *)

Reload ==
    /\ users' = load(store, "users")
    /\ products' = load(store, "products")
    /\ transactions' = load(store, "transactions")
    /\ shape' = [k \in Keys |-> loadedValue(store[k]).shape]
    /\ crashed' = renderThrows(shape')
    /\ activeTab' = "dashboard"
    /\ currentPage' = initialPage
    /\ formError' = ""
    /\ lastCmd' = Cmd("reload", "", 0, "", "", 0, "")
    /\ writeLog' = <<>>
    /\ UNCHANGED <<store, now, nextId, acceptedCount>>

----------------------------------------------------------------------------
ProductIds == {products[i].id : i \in 1..Len(products)}

Next ==
    \/ Tick
    \/ \E fullName \in FullNames, email \in Emails : RegisterUser(fullName, email)
    \/ \E sku \in Skus, name \in ProductNames, price \in Prices, quantity \in Quantities :
           RegisterProduct(sku, name, price, quantity)
    \/ \E productId \in ProductIds \cup {UnknownId}, amount \in Deltas :
           AdjustStock(productId, amount)
    \/ Reload

Spec == Init /\ [][Next]_vars

----------------------------------------------------------------------------
(* Page load on a browser profile whose keys hold any kind of item, followed *)
(* by registrations and further page loads                                   *)

FirstItems == {NoItem, ArrayItem(<<>>)} \cup {ForeignItem(f) : f \in ForeignForms}

InitLoad ==
    /\ store \in [Keys -> FirstItems]
    /\ users = load(store, "users")
    /\ products = load(store, "products")
    /\ transactions = load(store, "transactions")
    /\ shape = [k \in Keys |-> loadedValue(store[k]).shape]
    /\ crashed = renderThrows(shape)
    /\ activeTab = "dashboard"
    /\ currentPage = initialPage
    /\ formError = ""
    /\ now = 1
    /\ nextId = [k \in Keys |-> 1]
    /\ lastCmd = Cmd("reload", "", 0, "", "", 0, "")
    /\ writeLog = <<>>
    /\ acceptedCount = [id \in Uuids |-> 0]

NextLoad ==
    \/ \E fullName \in FullNames, email \in Emails : RegisterUser(fullName, email)
    \/ \E sku \in Skus, name \in ProductNames, price \in Prices, quantity \in Quantities :
           RegisterProduct(sku, name, price, quantity)
    \/ Reload

SpecLoad == InitLoad /\ [][NextLoad]_vars
----------------------------------------------------------------------------
(* Vocabulary of the properties *)

\* the table persisted under a key, as read back from its text
Persisted(key) == JSONparse(store[key].text)

\* the step just taken is the command op
Did(op) == lastCmd'.op = op

\* before the step: a product with this id exists / the delta would drive it negative
Exists(productId) == \E i \in 1..Len(products) : products[i].id = productId
GoesNegative(productId, delta) ==
    \E i \in 1..Len(products) :
        products[i].id = productId /\ products[i].quantity + delta < 0

RejectedStep ==
    /\ Did("adjustStock")
    /\ Exists(lastCmd'.productId)
    /\ GoesNegative(lastCmd'.productId, lastCmd'.amount)

AcceptedStep ==
    /\ Did("adjustStock")
    /\ Exists(lastCmd'.productId)
    /\ ~GoesNegative(lastCmd'.productId, lastCmd'.amount)

\* ledger entries of a product, by type
EntriesOf(ledger, productId, types) ==
    {j \in 1..Len(ledger) : ledger[j].productId = productId /\ ledger[j].type \in types}

RemoveAt(seq, j) == SubSeq(seq, 1, j - 1) \o SubSeq(seq, j + 1, Len(seq))

----------------------------------------------------------------------------
\* C1: every product's quantity is >= 0 in every reachable state, in the
\* in-memory product table and in the table persisted under "products".
C1_QuantityNeverNegative ==
    /\ \A i \in 1..Len(products) : products[i].quantity >= 0
    /\ \A i \in 1..Len(Persisted("products")) : Persisted("products")[i].quantity >= 0

\* a decrease has been refused at quantity 0 and the table is persisted
C1_Witness ==
    /\ lastCmd.op = "adjustStock"
    /\ lastCmd.outcome = "rejected"
    /\ store["products"].present
    /\ \E i \in 1..Len(products) :
           products[i].id = lastCmd.productId /\ products[i].quantity = 0

\* C2: an adjustStock on an existing product with quantity + delta < 0 leaves
\* the product table (quantity and lastUpdated included) and the ledger
\* exactly as they were; no transaction is added.
C2_RejectedInvisible ==
    [][ RejectedStep =>
            /\ products' = products
            /\ transactions' = transactions
            /\ Len(transactions') = Len(transactions) ]_vars

\* a refused adjustment of a product last updated at an earlier clock reading
C2_Witness ==
    /\ lastCmd.op = "adjustStock"
    /\ lastCmd.outcome = "rejected"
    /\ \E i \in 1..Len(products) :
           /\ products[i].id = lastCmd.productId
           /\ products[i].lastUpdated # toISOString(now)

\* C3 as stated: a rejected adjustStock performs no write to the store, neither
\* for "products" nor for "transactions".
C3_Original ==
    (lastCmd.op = "adjustStock" /\ lastCmd.outcome = "rejected") => writeLog = <<>>

\* C3 amended: a rejected adjustStock performs no write for "transactions" and
\* exactly one write for "products", whose text is that of the unchanged
\* product table.
C3_RejectedWritesUnchangedProducts ==
    [][ RejectedStep =>
            writeLog' = << [key |-> "products", text |-> JSONstringify(products)] >> ]_vars

C3_Witness ==
    /\ lastCmd.op = "adjustStock"
    /\ lastCmd.outcome = "rejected"
    /\ Len(writeLog) = 1
    /\ Len(transactions) >= 1

\* C4: an adjustStock on an existing product with quantity q and q + delta >= 0
\* sets that product's quantity to q + delta and its lastUpdated to the time
\* of the call.
C4_AcceptedSetsQuantity ==
    [][ AcceptedStep =>
            /\ Len(products') = Len(products)
            /\ \A i \in 1..Len(products) :
                   products[i].id = lastCmd'.productId =>
                       /\ products'[i].quantity = products[i].quantity + lastCmd'.amount
                       /\ products'[i].lastUpdated = toISOString(now) ]_vars

\* an accepted non-zero adjustment made at a later clock reading than the
\* registration of the product
C4_Witness ==
    /\ lastCmd.op = "adjustStock"
    /\ lastCmd.outcome = "accepted"
    /\ lastCmd.amount # 0
    /\ \E j \in 1..Len(transactions) :
           /\ transactions[j].productId = lastCmd.productId
           /\ transactions[j].type = "initial"
           /\ transactions[j].timestamp # toISOString(now)

\* C5: an accepted adjustStock(productId, delta) records exactly one
\* transaction for the product, of type "increase" if delta > 0 and "decrease"
\* otherwise, with amount |delta| >= 0; no adjustStock records an "initial".
C5_AcceptedRecordsOne ==
    [][ /\ AcceptedStep =>
            LET d == lastCmd'.amount
                tx == transactions'[1]
            IN  /\ Len(transactions') = Len(transactions) + 1
                /\ Tail(transactions') = transactions
                /\ tx.productId = lastCmd'.productId
                /\ tx.type = (IF d > 0 THEN "increase" ELSE "decrease")
                /\ tx.amount >= 0
                /\ tx.amount \in {d, 0 - d}
        /\ Did("adjustStock") =>
            \A id \in Uuids :
                Cardinality(EntriesOf(transactions', id, {"initial"}))
                    = Cardinality(EntriesOf(transactions, id, {"initial"})) ]_vars

\* an accepted decrease and an accepted zero adjustment are both on the ledger
C5_Witness ==
    /\ lastCmd.op = "adjustStock"
    /\ lastCmd.outcome = "accepted"
    /\ \E j \in 1..Len(transactions) :
           transactions[j].type = "decrease" /\ transactions[j].amount = 1
    /\ \E j \in 1..Len(transactions) :
           transactions[j].type = "decrease" /\ transactions[j].amount = 0

\* C6: for every product id, the number of increase/decrease ledger entries
\* with that id equals the number of accepted adjustStock calls on it.
C6_EntriesMatchAccepted ==
    \A id \in Uuids :
        Cardinality(EntriesOf(transactions, id, {"increase", "decrease"}))
            = acceptedCount[id]

\* a product with an accepted adjustment on record has just had one refused
C6_Witness ==
    /\ lastCmd.op = "adjustStock"
    /\ lastCmd.outcome = "rejected"
    /\ acceptedCount[lastCmd.productId] >= 1

\* C7: registerProduct with valid input adds exactly one product, carrying the
\* given sku, name, price and quantity, and exactly one transaction, of type
\* "initial", with the new product's id and amount = the given quantity.
C7_RegisterAddsProductAndInitial ==
    [][ ( /\ Did("registerProduct")
          /\ lastCmd'.sku # "" /\ lastCmd'.name # ""
          /\ lastCmd'.price > 0 /\ lastCmd'.amount >= 0 ) =>
            LET n == Len(products)
                new == products'[n + 1]
            IN  /\ Len(products') = n + 1
                /\ RemoveAt(products', n + 1) = products
                /\ new.sku = lastCmd'.sku
                /\ new.name = lastCmd'.name
                /\ new.price = lastCmd'.price
                /\ new.quantity = lastCmd'.amount
                /\ Len(transactions') = Len(transactions) + 1
                /\ \E j \in 1..Len(transactions') :
                       /\ RemoveAt(transactions', j) = transactions
                       /\ transactions'[j].type = "initial"
                       /\ transactions'[j].productId = new.id
                       /\ transactions'[j].amount = lastCmd'.amount ]_vars

\* a second product has just been registered with a non-zero quantity
C7_Witness ==
    /\ lastCmd.op = "registerProduct"
    /\ lastCmd.amount = 1
    /\ Len(products) = 2
    /\ Len(transactions) >= 2

C9_LedgerAppendOnly ==
    [][ \/ transactions' = transactions
        \/ /\ Len(transactions') = Len(transactions) + 1
           /\ Tail(transactions') = transactions ]_vars

\* the ledger holds an initial entry below two later entries
C9_Witness ==
    /\ Len(transactions) = 3
    /\ transactions[3].type = "initial"
    /\ transactions[1].type # "initial"

\* C10: adjustStock with an id that matches no product changes neither the
\* product table nor the ledger, and creates no product.
C10_UnknownIdNoOp ==
    [][ (Did("adjustStock") /\ ~Exists(lastCmd'.productId)) =>
            /\ products' = products
            /\ transactions' = transactions
            /\ Len(products') = Len(products) ]_vars

\* an adjustment with an unknown id was issued while products exist
C10_Witness ==
    /\ lastCmd.op = "adjustStock"
    /\ lastCmd.outcome = "unknown"
    /\ lastCmd.amount # 0
    /\ Len(products) >= 1

----------------------------------------------------------------------------
\* the in-memory table of a key
Table(key) ==
    IF key = "users" THEN users
    ELSE IF key = "products" THEN products
    ELSE transactions

IdsOf(table) == [i \in 1..Len(table) |-> table[i].id]

\* C13: after every command whose store writes succeed, a load of each key
\* returns exactly the in-memory table, and the text the command wrote under a
\* key is the text of the in-memory table of that key.
C13_PersistedEqualsMemory ==
    /\ \A key \in Keys : load(store, key) = Table(key)
    /\ \A w \in 1..Len(writeLog) :
           store[writeLog[w].key].text = JSONstringify(Table(writeLog[w].key))

\* an accepted adjustment has been made with all three keys written
C13_Witness ==
    /\ lastCmd.op = "adjustStock"
    /\ lastCmd.outcome = "accepted"
    /\ Len(writeLog) = 2
    /\ \A key \in Keys : store[key].present /\ Len(Table(key)) >= 1

\* C14: a restart after any sequence of commands rehydrates users, products
\* and transactions equal to the tables held in memory before it.
C14_ReloadRoundTrip ==
    [][ Did("reload") =>
            /\ users' = users
            /\ products' = products
            /\ transactions' = transactions ]_vars

\* a restart with a user, an adjusted product and a decrease on the ledger
C14_Witness ==
    /\ lastCmd.op = "reload"
    /\ Len(users) = 1
    /\ \E i \in 1..Len(products) :
           products[i].quantity = 2 /\ products[i].lastUpdated = toISOString(2)
    /\ \E j \in 1..Len(transactions) : transactions[j].type = "increase"

C20_ProductOrderKept ==
    [][ \/ IdsOf(products') = IdsOf(products)
        \/ /\ Len(products') = Len(products) + 1
           /\ SubSeq(IdsOf(products'), 1, Len(products)) = IdsOf(products)
           /\ \A i \in 1..Len(products) :
                  products[i].id # products'[Len(products) + 1].id ]_vars

\* the first of two products has just been adjusted
C20_Witness ==
    /\ lastCmd.op = "adjustStock"
    /\ lastCmd.outcome = "accepted"
    /\ Len(products) = 2
    /\ products[1].id = lastCmd.productId
    /\ products[1].quantity # products[2].quantity

----------------------------------------------------------------------------
Undeserializable(item) == item.present /\ item.form = "invalid"
WrongShape(item) == item.present /\ item.form \in {"null", "number", "object"}

\* C11: loading a key with no stored value, or with a stored text that cannot
\* be deserialized, gives the empty default; when this is so for every key the
\* page load raises no error.
C11_LoadFallsBackToDefault ==
    lastCmd.op = "reload" =>
        /\ \A key \in Keys :
               (~store[key].present \/ Undeserializable(store[key])) =>
                   Table(key) = <<>> /\ shape[key] = "array"
        /\ (\A key \in Keys : ~store[key].present \/ Undeserializable(store[key]))
               => ~crashed

\* a page load with "products" undeserializable and "users" absent
C11_Witness ==
    /\ lastCmd.op = "reload"
    /\ Undeserializable(store["products"])
    /\ ~store["users"].present
    /\ Undeserializable(store["transactions"])
    /\ ~crashed

\* C12 as stated: a stored text that deserializes to something that is no
\* sequence of records (null, a number, an object) loads as the empty default
\* table, and the page keeps working.
C12_Original ==
    lastCmd.op = "reload" =>
        \A key \in Keys :
            WrongShape(store[key]) =>
                Table(key) = <<>> /\ shape[key] = "array" /\ ~crashed

----------------------------------------------------------------------------
(* TransactionHistory: the ledger shown ten entries to a page               *)

MaxLedger == 25

ITEMS_PER_PAGE == 10

\* Math.ceil(a / b) for a >= 0, b > 0
MathCeilDiv(a, b) == (a + b - 1) \div b
MathMin(a, b) == IF a < b THEN a ELSE b
MathMax(a, b) == IF a > b THEN a ELSE b

totalPages(ledger) == MathCeilDiv(Len(ledger), ITEMS_PER_PAGE)

\* Array.prototype.slice(start, end) for 0 <= start <= end: the elements at the
\* 0-based indices start .. end - 1 that exist
slice(arr, start, end) ==
    SubSeq(arr, MathMin(start, Len(arr)) + 1, MathMin(end, Len(arr)))

currentTransactions(ledger, page) ==
    LET startIndex == (page - 1) * ITEMS_PER_PAGE
    IN  slice(ledger, startIndex, startIndex + ITEMS_PER_PAGE)

\* mutant of handleNextPage: no Math.min
handleNextPage_noMin(prev, total) == prev + 1

handleNextPage(prev, total) == MathMin(prev + 1, total)

handlePrevPage(prev) == MathMax(prev - 1, 1)

\* mutant of controlsRendered: the controls are rendered for any ledger
controlsRendered_always == TRUE

\* the pagination controls are rendered; each button is disabled
controlsRendered == totalPages(transactions) > 1
prevDisabled == currentPage = 1
nextDisabled == currentPage = totalPages(transactions)

PageFrame ==
    /\ writeLog' = <<>>
    /\ UNCHANGED <<users, products, transactions, store, now, nextId, acceptedCount,
                   shape, crashed, activeTab, formError>>

\* a click on Next
NextPage ==
    /\ ~crashed /\ activeTab = "history"
    /\ controlsRendered /\ ~nextDisabled
    /\ currentPage' = handleNextPage(currentPage, totalPages(transactions))
    /\ lastCmd' = Cmd("nextPage", "", 0, "", "", 0, "")
    /\ PageFrame

\* a click on Previous
PrevPage ==
    /\ ~crashed /\ activeTab = "history"
    /\ controlsRendered /\ ~prevDisabled
    /\ currentPage' = handlePrevPage(currentPage)
    /\ lastCmd' = Cmd("prevPage", "", 0, "", "", 0, "")
    /\ PageFrame

\* a click on a tab: the component of the old tab is unmounted and loses its
\* state, the component of the new tab is mounted with its initial state
SetActiveTab(tab) ==
    /\ ~crashed
    /\ activeTab' = tab
    /\ currentPage' = IF tab = activeTab THEN currentPage ELSE initialPage
    /\ formError' = IF tab = activeTab THEN formError ELSE ""
    /\ lastCmd' = Cmd("setActiveTab", "", 0, "", "", 0, tab)
    /\ writeLog' = <<>>
    /\ UNCHANGED <<users, products, transactions, store, now, nextId, acceptedCount,
                   shape, crashed>>

\* on the products tab: the registration of the first product, and stock
\* increases that make the ledger grow
RegisterFirstProduct(sku, name, price, quantity) ==
    /\ activeTab = "products"
    /\ products = <<>>
    /\ handleRegisterProduct(sku, name, price, quantity)
    /\ UNCHANGED ui

IncreaseStock(productId) ==
    /\ activeTab = "products"
    /\ Len(transactions) < MaxLedger
    /\ handleAdjustStock(productId, 1)
    /\ UNCHANGED ui

NextPaging ==
    \/ \E tab \in Tabs : SetActiveTab(tab)
    \/ \E sku \in Skus, name \in ProductNames, price \in Prices, quantity \in Quantities :
           RegisterFirstProduct(sku, name, price, quantity)
    \/ \E productId \in ProductIds : IncreaseStock(productId)
    \/ NextPage
    \/ PrevPage

SpecPage == Init /\ [][NextPaging]_vars

----------------------------------------------------------------------------
\* the least number of pages of ten that hold n entries
PagesFor(n) == CHOOSE k \in 0..n : k * 10 >= n /\ (k - 1) * 10 < n

\* the ledger entries at the 0-based indices from .. to, in ledger order
EntriesAt(from, to) == [i \in 1..(to - from + 1) |-> transactions[from + i]]

\* C15: for a ledger of n transactions and a page k with 1 <= k <= ceil(n/10),
\* the page shows exactly the entries at indices (k-1)*10 .. min(k*10, n)-1 in
\* ledger order; 25 transactions give pages of 10, 10 and 5 entries, and next
\* page from page 3 still shows page 3's content.
C15_PageIsLedgerSlice ==
    LET n == Len(transactions) IN
    /\ \A k \in 1..PagesFor(n) :
           currentTransactions(transactions, k)
               = EntriesAt((k - 1) * 10, (IF k * 10 < n THEN k * 10 ELSE n) - 1)
    /\ activeTab = "history" =>
           currentTransactions(transactions, currentPage)
               = EntriesAt((currentPage - 1) * 10,
                           (IF currentPage * 10 < n THEN currentPage * 10 ELSE n) - 1)
    /\ n = 25 =>
           /\ Len(currentTransactions(transactions, 1)) = 10
           /\ Len(currentTransactions(transactions, 2)) = 10
           /\ Len(currentTransactions(transactions, 3)) = 5
           /\ currentTransactions(transactions, handleNextPage(3, totalPages(transactions)))
                  = currentTransactions(transactions, 3)

\* page 3 of a ledger of 25 is shown, reached with Next
C15_Witness ==
    /\ Len(transactions) = 25
    /\ activeTab = "history"
    /\ currentPage = 3
    /\ lastCmd.op = "nextPage"
    /\ Len(currentTransactions(transactions, currentPage)) = 5

\* C16: the current page is within [1, ceil(total/10)] when the ledger is not
\* empty and is 1 when it is empty, whatever the order of next-page, previous-page
\* and ledger growth.
C16_PageInRange ==
    IF transactions = <<>>
    THEN currentPage = 1
    ELSE currentPage \in 1..PagesFor(Len(transactions))

\* back on page 1 of a ledger of several pages, with Previous
C16_Witness ==
    /\ Len(transactions) > 10
    /\ activeTab = "history"
    /\ currentPage = 1
    /\ lastCmd.op = "prevPage"

----------------------------------------------------------------------------
(* The registration forms.  A field is the text typed into it, held as the  *)
(* sequence of its characters.                                              *)

SkuTexts == {<<>>, <<"A", "1">>}
NameTexts == {<<>>, <<"W", "i", "d", "g", "e", "t">>}
PriceTexts == {<<>>, <<"5">>, <<"0">>, <<"-", "5">>, <<"a", "b", "c">>}
QuantityTexts == {<<>>, <<"1">>, <<"0">>, <<"-", "1">>, <<"3", ".", "7">>, <<"a", "b", "c">>}
FullNameTexts == {<<>>, <<"A", "n", "n">>}
EmailTexts ==
    { <<>>,
      <<"a", "@", "b", ".", "c", "o", "m">>,
      <<"a", "b", "c">>,
      <<"a", "@", "b">>,
      <<"@", "b", ".", "c">>,
      <<"a", "@", ".", "c">>,
      <<"a", "@", "b", ".">>,
      <<"a", " ", "@", "b", ".", "c">>,
      <<"a", ".", "b", "@", "c">> }

Whitespace == {" "}
DigitChars == <<"0", "1", "2", "3", "4", "5", "6", "7", "8", "9">>

\* the string of a sequence of characters
RECURSIVE Join(_)
Join(chars) == IF chars = <<>> THEN "" ELSE Head(chars) \o Join(Tail(chars))

IsDigit(c) == \E d \in 1..10 : DigitChars[d] = c
DigitValue(c) == (CHOOSE d \in 1..10 : DigitChars[d] = c) - 1

\* a number, or NaN
NaN == [nan |-> TRUE, value |-> 0]
Num(n) == [nan |-> FALSE, value |-> n]
isNaN(x) == x.nan

RECURSIVE SkipWhitespace(_)
SkipWhitespace(chars) ==
    IF chars # <<>> /\ Head(chars) \in Whitespace THEN SkipWhitespace(Tail(chars))
    ELSE chars

\* the longest prefix made of digits
RECURSIVE DigitPrefix(_)
DigitPrefix(chars) ==
    IF chars = <<>> \/ ~IsDigit(Head(chars)) THEN <<>>
    ELSE <<Head(chars)>> \o DigitPrefix(Tail(chars))

RECURSIVE DigitsValue(_, _)
DigitsValue(digits, acc) ==
    IF digits = <<>> THEN acc
    ELSE DigitsValue(Tail(digits), 10 * acc + DigitValue(Head(digits)))

\* parseInt(text, 10): leading whitespace skipped, an optional sign, then the
\* digits up to the first character that is no digit; NaN when there is none
parseInt(chars) ==
    LET trimmed == SkipWhitespace(chars)
        signed == trimmed # <<>> /\ Head(trimmed) \in {"-", "+"}
        body == IF signed THEN Tail(trimmed) ELSE trimmed
        digits == DigitPrefix(body)
        magnitude == DigitsValue(digits, 0)
    IN  IF digits = <<>> THEN NaN
        ELSE IF signed /\ Head(trimmed) = "-" THEN Num(0 - magnitude)
             ELSE Num(magnitude)

\* parseFloat(text): the longest prefix that is a decimal literal.  The price
\* texts of the model hold no ".", exponent or "Infinity", so the literal is a
\* signed run of digits.
parseFloat(chars) == parseInt(chars)

\* ProductRegistrationForm.handleSubmit: the message set with setError, "" when
\* the fields pass
productFormError(sku, name, price, quantity) ==
    IF sku = <<>> \/ name = <<>> \/ price = <<>> \/ quantity = <<>>
    THEN "All fields are required."
    ELSE LET priceNum == parseFloat(price)
             quantityNum == parseInt(quantity)
         IN  IF \/ isNaN(priceNum) \/ priceNum.value <= 0
                \/ isNaN(quantityNum) \/ quantityNum.value < 0
             THEN "Please enter valid numbers for price and quantity."
             ELSE ""

\* a submission that handleSubmit refuses: only the form's error changes
Refused(form, message) ==
    /\ formError' = message
    /\ lastCmd' = Cmd(form, "", 0, "", "", 0, "rejected")
    /\ writeLog' = <<>>
    /\ UNCHANGED <<users, products, transactions, store, now, nextId, acceptedCount,
                   shape, crashed, activeTab, currentPage>>

SubmitProductForm(sku, name, price, quantity) ==
    /\ ~crashed /\ activeTab = "products"
    /\ LET message == productFormError(sku, name, price, quantity)
       IN  IF message # ""
           THEN Refused("submitProduct", message)
           ELSE /\ handleRegisterProduct(Join(sku), Join(name), parseFloat(price).value,
                                         parseInt(quantity).value)
                /\ formError' = ""
                /\ UNCHANGED <<activeTab, currentPage>>

\* \S+ matched from position i: the positions at which the match can end
RunEnds(chars, i) ==
    {j \in i..Len(chars) : \A k \in i..j : chars[k] \notin Whitespace}

\* mutant of emailPattern: the "." and what follows it not asked for
emailPattern_noDot(chars) ==
    \E a \in RunEnds(chars, 1) :
        /\ a + 1 <= Len(chars) /\ chars[a + 1] = "@"
        /\ Len(chars) \in RunEnds(chars, a + 2)

\* /^\S+@\S+\.\S+$/.test(email)
emailPattern(chars) ==
    \E a \in RunEnds(chars, 1) :
        /\ a + 1 <= Len(chars) /\ chars[a + 1] = "@"
        /\ \E b \in RunEnds(chars, a + 2) :
               /\ b + 1 <= Len(chars) /\ chars[b + 1] = "."
               /\ Len(chars) \in RunEnds(chars, b + 2)

\* UserRegistrationForm.handleSubmit: the message set with setError
userFormError(fullName, email) ==
    IF fullName = <<>> \/ email = <<>> THEN "Both fields are required."
    ELSE IF ~emailPattern(email) THEN "Please enter a valid email address."
         ELSE ""

SubmitUserForm(fullName, email) ==
    /\ ~crashed /\ activeTab = "users"
    /\ LET message == userFormError(fullName, email)
       IN  IF message # ""
           THEN Refused("submitUser", message)
           ELSE /\ handleRegisterUser(Join(fullName), Join(email))
                /\ formError' = ""
                /\ UNCHANGED <<activeTab, currentPage>>

NextForms ==
    \/ \E tab \in Tabs : SetActiveTab(tab)
    \/ \E sku \in SkuTexts, name \in NameTexts, price \in PriceTexts,
          quantity \in QuantityTexts : SubmitProductForm(sku, name, price, quantity)
    \/ \E fullName \in FullNameTexts, email \in EmailTexts : SubmitUserForm(fullName, email)

SpecForms == Init /\ [][NextForms]_vars

----------------------------------------------------------------------------
\* the text is a decimal numeral: digits only, at least one
IsNumeral(text) == text # <<>> /\ \A i \in 1..Len(text) : IsDigit(text[i])

\* the text denotes a positive number (among the price texts of the model)
IsPositiveNumber(text) == IsNumeral(text) /\ \E i \in 1..Len(text) : text[i] # "0"

\* the text denotes a non-negative integer
IsNonNegativeInteger(text) == IsNumeral(text)

InvalidProductFields(sku, name, price, quantity) ==
    \/ sku = <<>> \/ name = <<>> \/ price = <<>> \/ quantity = <<>>
    \/ ~IsPositiveNumber(price)
    \/ ~IsNonNegativeInteger(quantity)

\* C17 as stated: registerProduct is rejected with a validation error and
\* changes none of users, products, transactions or the store whenever sku or
\* name is empty, price or quantity is missing, price is not a positive number,
\* or quantity is not a non-negative integer (3.7 included).
C17_Original ==
    [][\A sku \in SkuTexts, name \in NameTexts, price \in PriceTexts,
          quantity \in QuantityTexts :
           (SubmitProductForm(sku, name, price, quantity)
               /\ InvalidProductFields(sku, name, price, quantity))
           => /\ formError' # ""
              /\ UNCHANGED <<users, products, transactions, store>>]_vars

\* the text is a run without whitespace, "@", such a run, ".", such a run
IsEmailText(text) ==
    /\ \A k \in 1..Len(text) : text[k] # " "
    /\ \E p \in 1..Len(text), q \in 1..Len(text) :
           /\ text[p] = "@" /\ text[q] = "."
           /\ 1 < p /\ p + 1 < q /\ q < Len(text)

\* C18: registerUser is rejected with a validation error and changes no table
\* and no key when fullName or email is empty or email is not of the form
\* run@run.run; otherwise it is accepted and the user is added.
C18_UserFormValidation ==
    [][\A fullName \in FullNameTexts, email \in EmailTexts :
           SubmitUserForm(fullName, email)
           => IF fullName = <<>> \/ email = <<>> \/ ~IsEmailText(email)
              THEN /\ formError' # ""
                   /\ UNCHANGED <<users, products, transactions, store>>
              ELSE /\ formError' = ""
                   /\ Len(users') = Len(users) + 1
                   /\ users'[Len(users')].fullName = Join(fullName)
                   /\ users'[Len(users')].email = Join(email)
                   /\ store'["users"].text = JSONstringify(users')]_vars

\* "a@b.com" has been accepted, then an email that is not of the form refused
C18_Witness ==
    /\ \E i \in 1..Len(users) : users[i].email = "a@b.com"
    /\ lastCmd.op = "submitUser" /\ lastCmd.outcome = "rejected"
    /\ formError = "Please enter a valid email address."

----------------------------------------------------------------------------
\* C21: an accepted adjustStock(productId, delta) changes only the quantity and
\* lastUpdated of the product with that id: its id, sku, name and price stay,
\* every other product stays in all fields, and the users table stays.
C21_AcceptedAdjustFrame ==
    [][ AcceptedStep =>
            /\ Len(products') = Len(products)
            /\ \A i \in 1..Len(products) :
                   IF products[i].id = lastCmd'.productId
                   THEN /\ products'[i].id = products[i].id
                        /\ products'[i].sku = products[i].sku
                        /\ products'[i].name = products[i].name
                        /\ products'[i].price = products[i].price
                   ELSE products'[i] = products[i]
            /\ users' = users ]_vars

\* an accepted non-zero adjustment of one of two products, with a user registered
C21_Witness ==
    /\ lastCmd.op = "adjustStock"
    /\ lastCmd.outcome = "accepted"
    /\ lastCmd.amount # 0
    /\ Len(products) = 2
    /\ Len(users) = 1

\* C22: for every product, its initial ledger entry is at a larger index of
\* the newest-first ledger than every increase/decrease entry of that product,
\* and a product with such entries has an initial entry.
C22_InitialBeforeAdjustments ==
    \A k \in 1..Len(transactions) :
        transactions[k].type \in {"increase", "decrease"} =>
            /\ \E j \in 1..Len(transactions) :
                   /\ transactions[j].productId = transactions[k].productId
                   /\ transactions[j].type = "initial"
            /\ \A j \in 1..Len(transactions) :
                   (/\ transactions[j].productId = transactions[k].productId
                    /\ transactions[j].type = "initial") => j > k

\* a product with an increase and a decrease above its initial entry
C22_Witness ==
    \E id \in ProductIds :
        /\ EntriesOf(transactions, id, {"increase"}) # {}
        /\ EntriesOf(transactions, id, {"decrease"}) # {}
        /\ EntriesOf(transactions, id, {"initial"}) # {}

\* C23: adjustStock with delta 0 on an existing product is accepted: the
\* quantity stays, lastUpdated is refreshed, and exactly one entry of type
\* decrease with amount 0 is prepended to the ledger.
C23_ZeroDeltaIsDecrease ==
    [][ (Did("adjustStock") /\ Exists(lastCmd'.productId) /\ lastCmd'.amount = 0) =>
            /\ lastCmd'.outcome = "accepted"
            /\ Len(products') = Len(products)
            /\ \A i \in 1..Len(products) :
                   products[i].id = lastCmd'.productId =>
                       /\ products'[i].quantity = products[i].quantity
                       /\ products'[i].lastUpdated = toISOString(now)
            /\ Len(transactions') = Len(transactions) + 1
            /\ SubSeq(transactions', 2, Len(transactions')) = transactions
            /\ transactions'[1].type = "decrease"
            /\ transactions'[1].amount = 0
            /\ transactions'[1].productId = lastCmd'.productId ]_vars

\* a zero adjustment made later than the registration: lastUpdated has moved
C23_Witness ==
    /\ lastCmd.op = "adjustStock"
    /\ lastCmd.amount = 0
    /\ lastCmd.outcome = "accepted"
    /\ transactions # <<>>
    /\ transactions[1].type = "decrease"
    /\ \E i \in 1..Len(products) :
           /\ products[i].id = lastCmd.productId
           /\ products[i].lastUpdated = toISOString(now)
           /\ now > 1

\* C26: the two writes of a command come in a fixed order: an accepted
\* adjustStock saves the ledger under "transactions" and then the product
\* table under "products"; registerProduct saves "products" and then
\* "transactions".
C26_WriteOrder ==
    /\ (lastCmd.op = "adjustStock" /\ lastCmd.outcome = "accepted") =>
           writeLog = << Write("transactions", transactions), Write("products", products) >>
    /\ lastCmd.op = "registerProduct" =>
           writeLog = << Write("products", products), Write("transactions", transactions) >>

\* the second product has just been registered, after an accepted adjustment
C26_Witness ==
    /\ lastCmd.op = "registerProduct"
    /\ Len(products) = 2
    /\ \E j \in 1..Len(transactions) : transactions[j].type = "increase"

RECURSIVE SumAmounts(_, _, _)
\* the sum of the amounts of a product's ledger entries of a type
SumAmounts(ledger, productId, type) ==
    IF ledger = <<>> THEN 0
    ELSE (IF Head(ledger).productId = productId /\ Head(ledger).type = type
          THEN Head(ledger).amount ELSE 0)
         + SumAmounts(Tail(ledger), productId, type)

C29_EntriesNameProducts ==
    \A j \in 1..Len(transactions) :
        \E i \in 1..Len(products) :
            /\ products[i].id = transactions[j].productId
            /\ products[i].sku = transactions[j].sku
            /\ products[i].name = transactions[j].productName

\* a full ledger over two products
C29_Witness ==
    /\ Len(products) = 2
    /\ Len(transactions) = MaxTxns
    /\ \E j \in 1..Len(transactions) : transactions[j].productId = products[2].id
    /\ \E j \in 1..Len(transactions) : transactions[j].type # "initial"

----------------------------------------------------------------------------
(* Faults: the process stops between the two setItem calls of a command,    *)
(* or a setItem call throws (the quota of the origin is exhausted)          *)

FailingKeys == {"products", "transactions"}

\* no earlier fault has left a trace: the store holds what memory holds and
\* every id handed out is in a table.  The model lets a fault happen only
\* then, so that faults do not pile up.
NoFaultOutstanding ==
    /\ \A key \in Keys :
           IF store[key].present THEN store[key].text = JSONstringify(Table(key))
           ELSE Table(key) = <<>>
    /\ nextId.products = Len(products) + 1
    /\ nextId.transactions = Len(transactions) + 1

\* the process stops after a command's first setItem call: what memory held
\* is gone, the page stays dead until it is loaded again
Stopped(ws, op, productId, amount) ==
    /\ ~crashed /\ NoFaultOutstanding
    /\ Len(ws) = 2
    /\ store' = ApplyWrites(store, writesBeforeStop(ws))
    /\ writeLog' = writesBeforeStop(ws)
    /\ crashed' = TRUE
    /\ lastCmd' = Cmd(op, productId, amount, "", "", 0, "stopped")
    /\ UNCHANGED <<users, products, transactions, now, acceptedCount, shape>>
    /\ UNCHANGED ui

\* in handleAdjustStock: "transactions" is written, "products" is not
StopInAdjustStock(productId, amount) ==
    /\ Len(transactions) < MaxTxns /\ nextId.transactions <= MaxTxns
    /\ Stopped(adjustStockWrites(productId, amount), "adjustStock", productId, amount)
    /\ nextId' = [nextId EXCEPT !.transactions = @ + 1]

\* in handleRegisterProduct: "products" is written, "transactions" is not
StopInRegisterProduct(sku, name, price, quantity) ==
    /\ Len(products) < MaxProducts /\ nextId.products <= MaxProducts
    /\ Len(transactions) < MaxTxns /\ nextId.transactions <= MaxTxns
    /\ Stopped(registerProductWrites(sku, name, price, quantity), "registerProduct",
               registeredProduct(sku, name, price, quantity).id, quantity)
    /\ nextId' = [nextId EXCEPT !.products = @ + 1]

\* a command during which setItem throws for one key that it writes
AdjustStockWriteFails(productId, amount, key) ==
    /\ Len(transactions) < MaxTxns /\ nextId.transactions <= MaxTxns
    /\ \E k \in 1..Len(adjustStockWrites(productId, amount)) :
           adjustStockWrites(productId, amount)[k].key = key
    /\ NoFaultOutstanding
    /\ adjustStockWhen(productId, amount, {key})
    /\ UNCHANGED ui

RegisterProductWriteFails(sku, name, price, quantity, key) ==
    /\ NoFaultOutstanding
    /\ registerProductWhen(sku, name, price, quantity, {key})
    /\ UNCHANGED ui

\* one product is enough for every fault: only the first registration is taken
NextFaults ==
    \/ \E sku \in Skus, name \in ProductNames, price \in Prices, quantity \in Quantities :
           /\ nextId.products = 1
           /\ \/ RegisterProduct(sku, name, price, quantity)
              \/ StopInRegisterProduct(sku, name, price, quantity)
              \/ \E key \in FailingKeys :
                     RegisterProductWriteFails(sku, name, price, quantity, key)
    \/ \E productId \in ProductIds, amount \in Deltas :
           \/ AdjustStock(productId, amount)
           \/ StopInAdjustStock(productId, amount)
           \/ \E key \in FailingKeys : AdjustStockWriteFails(productId, amount, key)
    \/ Reload

SpecFaults == Init /\ [][NextFaults]_vars

----------------------------------------------------------------------------
\* a product table and a ledger reconcile: each quantity is the initial amount
\* plus the increases minus the decreases
ReconcilesWith(table, ledger) ==
    \A i \in 1..Len(table) :
        table[i].quantity = SumAmounts(ledger, table[i].id, "initial")
                            + SumAmounts(ledger, table[i].id, "increase")
                            - SumAmounts(ledger, table[i].id, "decrease")

InSync == \A key \in Keys : load(store, key) = Table(key)

\* C24: the two writes of a command are not atomic.  When the process stops
\* between them, the store holds the ledger with the adjustment's entry and
\* the product table without the adjustment (for registerProduct: the table
\* with the product and the ledger without its entry), so a store that
\* reconciled no longer does; and a reload takes the store as it is and
\* writes nothing, so the mismatch stays.
C24_StopBetweenWritesMismatch ==
    [][ /\ (Did("adjustStock") /\ lastCmd'.outcome = "stopped") =>
               /\ Len(load(store', "transactions")) = Len(transactions) + 1
               /\ load(store', "transactions")[1].productId = lastCmd'.productId
               /\ SubSeq(load(store', "transactions"), 2, Len(transactions) + 1)
                      = transactions
               /\ store'["products"] = store["products"]
               /\ (InSync /\ ReconcilesWith(products, transactions)
                          /\ lastCmd'.amount # 0)
                      => ~ReconcilesWith(load(store', "products"),
                                         load(store', "transactions"))
        /\ (Did("registerProduct") /\ lastCmd'.outcome = "stopped") =>
               /\ Len(load(store', "products")) = Len(products) + 1
               /\ load(store', "products")[Len(products) + 1].id = lastCmd'.productId
               /\ SubSeq(load(store', "products"), 1, Len(products)) = products
               /\ store'["transactions"] = store["transactions"]
               /\ InSync =>
                      EntriesOf(load(store', "transactions"), lastCmd'.productId,
                                {"initial"}) = {}
        /\ Did("reload") =>
               /\ store' = store
               /\ products' = load(store, "products")
               /\ transactions' = load(store, "transactions") ]_vars

\* the page has been loaded again after a stop inside an adjustment: the
\* ledger shows an entry the product table does not reflect
C24_Witness ==
    /\ lastCmd.op = "reload"
    /\ ~crashed
    /\ InSync
    /\ \E i \in 1..Len(products) :
           /\ Cardinality(EntriesOf(transactions, products[i].id, {"initial"})) = 1
           /\ products[i].quantity # SumAmounts(transactions, products[i].id, "initial")
                                     + SumAmounts(transactions, products[i].id, "increase")
                                     - SumAmounts(transactions, products[i].id, "decrease")
           /\ nextId.transactions = Len(transactions) + 1

\* C25: a setItem failure while the ledger entry is recorded is swallowed: the
\* command completes, the product table is updated and saved, and the entry
\* is missing from the value saved under "transactions".
C25_LedgerWriteFailureSwallowed ==
    [][ /\ \A productId \in ProductIds, amount \in Deltas :
               AdjustStockWriteFails(productId, amount, "transactions") =>
                   /\ ~crashed'
                   /\ \A i \in 1..Len(products) :
                          products[i].id = productId =>
                              products'[i].quantity = products[i].quantity + amount
                   /\ store'["products"].text = JSONstringify(products')
                   /\ store'["transactions"] = store["transactions"]
                   /\ transactions'[1].productId = productId
                   /\ \A j \in 1..Len(load(store', "transactions")) :
                          load(store', "transactions")[j].id # transactions'[1].id
        /\ \A sku \in Skus, name \in ProductNames, price \in Prices,
              quantity \in Quantities :
               RegisterProductWriteFails(sku, name, price, quantity, "transactions") =>
                   /\ ~crashed'
                   /\ Len(products') = Len(products) + 1
                   /\ store'["products"].text = JSONstringify(products')
                   /\ store'["transactions"] = store["transactions"]
                   /\ transactions'[1].type = "initial"
                   /\ \A j \in 1..Len(load(store', "transactions")) :
                          load(store', "transactions")[j].id # transactions'[1].id
      ]_vars

\* an accepted adjustment whose entry is in memory and not in the store, the
\* product table saved
C25_Witness ==
    /\ lastCmd.op = "adjustStock"
    /\ lastCmd.outcome = "accepted"
    /\ ~crashed
    /\ load(store, "products") = products
    /\ transactions # <<>>
    /\ transactions[1].productId = lastCmd.productId
    /\ transactions[1].type # "initial"
    /\ \A j \in 1..Len(load(store, "transactions")) :
           load(store, "transactions")[j].id # transactions[1].id

----------------------------------------------------------------------------
(* Two updates of one key within one event.  The only handler that can      *)
(* issue them is handleAdjustStock, whose map calls addTransaction once     *)
(* for every product carrying the id: the page is loaded from a store      *)
(* whose product table holds two records with the same id.                 *)

TwinProducts(q1, q2) ==
    << newProductRecord(uuid("products", 1), "A1", "Widget", 5, q1, 1),
       newProductRecord(uuid("products", 1), "A1", "Widget", 5, q2, 1) >>

InitBatch ==
    /\ \E q1 \in Quantities, q2 \in Quantities :
           store = [k \in Keys |->
                       IF k = "products"
                       THEN ArrayItem(JSONstringify(TwinProducts(q1, q2)))
                       ELSE NoItem]
    /\ users = load(store, "users")
    /\ products = load(store, "products")
    /\ transactions = load(store, "transactions")
    /\ shape = [k \in Keys |-> loadedValue(store[k]).shape]
    /\ crashed = renderThrows(shape)
    /\ activeTab = "dashboard"
    /\ currentPage = initialPage
    /\ formError = ""
    /\ now = 1
    /\ nextId = [k \in Keys |-> IF k = "products" THEN 2 ELSE 1]
    /\ lastCmd = Cmd("reload", "", 0, "", "", 0, "")
    /\ writeLog = <<>>
    /\ acceptedCount = [id \in Uuids |-> 0]

NextBatch ==
    \/ Tick
    \/ \E productId \in ProductIds, amount \in Deltas : AdjustStock(productId, amount)
    \/ Reload

SpecBatch == InitBatch /\ [][NextBatch]_vars

----------------------------------------------------------------------------
----------------------------------------------------------------------------
(* ProductList: the two buttons of a product's row, on the products tab     *)

\* mutant of decrementDisabled: the button still enabled at quantity 0
decrementDisabled_offByOne(product) == product.quantity < 0

\* disabled={product.quantity <= 0}
decrementDisabled(product) == product.quantity <= 0

\* a click on the minus button of a row
ClickDecrement(productId) ==
    /\ activeTab = "products"
    /\ Len(transactions) < MaxTxns /\ nextId.transactions <= MaxTxns
    /\ \E i \in 1..Len(products) :
           products[i].id = productId /\ ~decrementDisabled(products[i])
    /\ handleAdjustStock(productId, 0 - 1)
    /\ UNCHANGED ui

\* a click on the plus button of a row
ClickIncrement(productId) ==
    /\ activeTab = "products"
    /\ Len(transactions) < MaxTxns /\ nextId.transactions <= MaxTxns
    /\ handleAdjustStock(productId, 1)
    /\ UNCHANGED ui

\* the registration form of the same tab
RegisterOnProductsTab(sku, name, price, quantity) ==
    /\ activeTab = "products"
    /\ handleRegisterProduct(sku, name, price, quantity)
    /\ UNCHANGED ui

NextClicks ==
    \/ \E tab \in Tabs : SetActiveTab(tab)
    \/ \E sku \in Skus, name \in ProductNames, price \in Prices, quantity \in Quantities :
           RegisterOnProductsTab(sku, name, price, quantity)
    \/ \E productId \in ProductIds : ClickDecrement(productId)
    \/ \E productId \in ProductIds : ClickIncrement(productId)

SpecClicks == Init /\ [][NextClicks]_vars

----------------------------------------------------------------------------
\* C30: through the product list, where a click issues adjustStock with +1 or
\* -1 and the minus button is disabled while the rendered quantity is <= 0, no
\* adjustment is rejected by the negative-stock guard: every click changes the
\* quantity by its delta and adds one ledger entry.
C30_ClicksNeverRejected ==
    [][ Did("adjustStock") =>
            /\ lastCmd'.amount \in {1, 0 - 1}
            /\ lastCmd'.outcome = "accepted"
            /\ \A i \in 1..Len(products) :
                   products[i].id = lastCmd'.productId =>
                       products'[i].quantity = products[i].quantity + lastCmd'.amount
            /\ Len(transactions') = Len(transactions) + 1
            /\ transactions'[1].productId = lastCmd'.productId ]_vars

\* a click on minus has brought a product to 0: its minus button is now disabled
C30_Witness ==
    /\ lastCmd.op = "adjustStock"
    /\ lastCmd.amount = 0 - 1
    /\ activeTab = "products"
    /\ \E i \in 1..Len(products) :
           /\ products[i].id = lastCmd.productId
           /\ products[i].quantity = 0
           /\ decrementDisabled(products[i])
====
